---- MODULE Spec2Model ----
(***************************************************************************)
(* The uniter's event filter (worker/uniter/filter.go): one goroutine      *)
(* (filter.loop) that owns the cached unit/service state, selects over     *)
(* four state watchers, five request channels and four armed outputs, and  *)
(* races every blocking operation against the tomb's dying signal.         *)
(*                                                                         *)
(* The state backend is not part of the program.  A Refresh is modelled as *)
(* a read of a value the backend can hold at that moment: the life of the  *)
(* unit and of the service only advances; the unit's resolved flag and the *)
(* service's charm are whatever their other writers have made them.        *)
(*                                                                         *)
(* The upgrade-series worker (worker/upgradeseries/worker.go) is a second  *)
(* program with a loop of its own: it watches the machine's upgrade-series *)
(* lock and moves its status along, stopping and starting the unit agent   *)
(* services of the machine.  It shares nothing with the filter; each       *)
(* specification runs one of the two and leaves the other as it starts.    *)
(***************************************************************************)
EXTENDS Integers, Sequences, FiniteSets, TLC

\* ------------------------------------------------------------- bounds
NumCharms == 2      \* charm URLs the service announces and SetCharm is given
MaxRelId == 3       \* relation ids 1..MaxRelId
MaxNotifyLen == 2   \* longest id list of one relations change
MaxUnits == 2       \* units 1..MaxUnits a machine may hold

\* ------------------------------------------------------------- values
Nil == "nil"
CharmURLs == <<"cs:foo-1", "cs:foo-2", "cs:foo-3", "cs:foo-4">>
Charms == {CharmURLs[i] : i \in 1..NumCharms}
RelIds == 1..MaxRelId
Callers == {"c1", "c2"}
Lives == {"alive", "dying", "dead"}
Modes == {"none", "retry-hooks", "no-hooks"}
Kinds == {"unit", "service", "config", "relations"}

ErrDying == "tomb: dying"
ErrTerminateAgent == "agent should be terminated"
ErrServiceRemoved == "service unexpectedly removed"
ErrServiceDead == "service unexpectedly dead"
ErrBackend == "backend error"
WatcherErr(k) == "watcher error: " \o k
ErrStillAlive == "tomb: still alive"
NoErr == "no error"
Panic == "panic"

LifeRank(l) == CASE l = "alive" -> 0 [] l = "dying" -> 1 [] l = "dead" -> 2

\* Sequences over S of length at most n (the payload of a relations change).
RECURSIVE SeqsUpTo(_, _)
SeqsUpTo(S, n) ==
  IF n = 0 THEN {<< >>}
  ELSE LET shorter == SeqsUpTo(S, n - 1)
       IN  shorter \cup {Append(s, x) : s \in {t \in shorter : Len(t) = n - 1}, x \in S}

Contains(s, x) == \E i \in 1..Len(s) : s[i] = x
Elems(s) == {s[i] : i \in 1..Len(s)}

\* ------------------------------------------------------------- state
VARIABLES
  pc,               \* where filter.loop is: start, select, ackSetCharm, restSetCharm,
                    \* ackClearResolved, done
  tombReason,       \* f.tomb's reason; ErrStillAlive until the first Kill
  loopErr,          \* the error filter.loop returned (NoErr while it runs)
  exitCause,        \* history: the call or receive that made filter.loop return
  life,             \* f.life
  unitDyingCloses,  \* how many times close(f.outUnitDying) ran
  resolved,         \* f.resolved
  upgradeFrom,      \* f.upgradeFrom: [url, force]
  upgradeAvailable, \* f.upgradeAvailable: [url, force]
  upgrade,          \* f.upgrade
  relations,        \* f.relations
  outUpgrade,       \* f.outUpgrade = f.outUpgradeOn (armed) rather than nil
  outResolved,      \* f.outResolved = f.outResolvedOn
  outConfig,        \* f.outConfig = f.outConfigOn
  outRelations,     \* f.outRelations = f.outRelationsOn
  discardConfig,    \* loop's local discardConfig = f.discardConfig rather than nil
  curl,             \* the charm URL of the setCharm request being handled
  handle,           \* loop's unitw, servicew, configw, relationsw: nil, live, stopped
  running,          \* per kind, how many watchers are started and not yet stopped
  svcLife,          \* f.service.Life() as of the last Refresh
  unitDestroyed,    \* f.unit.Destroy() has succeeded
  unitCharmURL,     \* the unit's charm URL in state, as the last SetCharmURL left it
  call,             \* per caller: the request method it is in, and where
  relSeen,          \* history: ids of the relations changes received since the last
                    \* delivery on RelationsEvents
  wantedUpgrade,    \* history: the loop has received a WantUpgradeEvent
  observed,         \* history: the resolved mode the last unit Refresh read and the
                    \* charm URL the last service Refresh read
  env,              \* the scenario: what the backend and the callers may do
  wpc,              \* upgradeSeriesWorker.loop: "start", "select" or "done"
  werr,             \* the error upgradeSeriesWorker.loop returned
  wdying,           \* the worker's catacomb is dying
  machineStatus,    \* the status of the machine's upgrade-series lock in state
  unitStatus,       \* per unit: its upgrade-series status in state, "none" for a
                    \* unit that is not on the machine
  agentService      \* per unit: "absent", "running" or "stopped", the unit agent's
                    \* service in the local init system

\* The upgrade-series worker, its backend and the local init system.
seriesVars == <<wpc, werr, wdying, machineStatus, unitStatus, agentService>>

\* The loop's cache and locals: nothing reads them once the loop has returned.
cacheVars == <<resolved, upgradeFrom, upgradeAvailable, upgrade, relations, outUpgrade,
               outResolved, outConfig, outRelations, discardConfig, curl, relSeen,
               wantedUpgrade, observed>>
lifeVars == <<life, unitDyingCloses>>
backendVars == <<svcLife, unitDestroyed, unitCharmURL>>
watcherVars == <<handle, running>>
tombVars == <<tombReason, loopErr, exitCause>>
vars == <<pc, tombVars, lifeVars, cacheVars, watcherVars, backendVars, call, env, seriesVars>>

Idle == [op |-> "none", arg |-> Nil, phase |-> "idle"]
NoCharm == [url |-> Nil, force |-> FALSE]
NoneObserved == [resolved |-> "none", url |-> Nil]

Dying == tombReason # ErrStillAlive
Dead == pc = "done"

\* A variant of the handling of a closed Changes channel that returns
\* tomb.ErrDying instead of the watcher's error.
MustErrDying(k) == ErrDying

\* watcher.MustErr(w): the error of a watcher whose Changes channel was closed.
MustErr(k) == WatcherErr(k)

\* ------------------------------------------------------------- tomb
\* tomb.Kill(reason): the first non-nil reason is kept; Kill(ErrDying) leaves the
\* reason alone and panics on a tomb that is still alive.
Kill(reason, err) ==
  IF err = ErrDying
    THEN (IF reason = ErrStillAlive THEN Panic ELSE reason)
    ELSE (IF reason \in {ErrStillAlive, NoErr} THEN err ELSE reason)

\* watcher.Stop(w, &f.tomb): w.Stop(), and its error, if any, kills the tomb.
StopInto(reason, h, k, failing) ==
  IF h[k] # Nil /\ k \in failing THEN Kill(reason, WatcherErr(k)) ELSE reason

\* The place of each watcher's deferred Stop in the order the defers run: the
\* defers are registered for unitw, servicew, configw, relationsw and run last
\* registered first.
LifoRank(k) ==
  CASE k = "relations" -> 1 [] k = "config" -> 2 [] k = "service" -> 3 [] k = "unit" -> 4

\* A variant of the teardown that stops the watchers in the order they were
\* started.
TeardownReasonFIFO(reason, h, failing, err) ==
  LET r1 == StopInto(reason, h, "unit", failing)
      r2 == StopInto(r1, h, "service", failing)
      r3 == StopInto(r2, h, "config", failing)
      r4 == StopInto(r3, h, "relations", failing)
  IN  Kill(r4, err)

\* The deferred stops of filter.loop, last registered first, then the goroutine's
\* f.tomb.Kill(err) of newFilter.
TeardownReason(reason, h, failing, err) ==
  LET r1 == StopInto(reason, h, "relations", failing)
      r2 == StopInto(r1, h, "config", failing)
      r3 == StopInto(r2, h, "service", failing)
      r4 == StopInto(r3, h, "unit", failing)
  IN  Kill(r4, err)

\* A variant of the deferred stops in which the config watcher's defer holds the
\* configw of the time it was registered, not the one SetCharm started since.
StopRunningAtDefer(h, run) ==
  [k \in Kinds |-> IF h[k] = "live" /\ k # "config" THEN run[k] - 1 ELSE run[k]]

\* The handles after the deferred stops: every watcher the loop still holds is
\* stopped.
StopAll(h) == [k \in Kinds |-> IF h[k] = Nil THEN Nil ELSE "stopped"]
StopRunning(h, run) ==
  [k \in Kinds |-> IF h[k] = "live" THEN run[k] - 1 ELSE run[k]]

\* filter.loop returns err holding the watcher handles h: the defers run, and the
\* goroutine of newFilter kills the tomb with err and marks it done.  `must` are
\* the watchers whose Stop is bound to fail (their Changes channel was closed, or
\* their Stop has failed already); any other Stop may fail too, and as the tomb
\* keeps the first error only, one more failing Stop gives every outcome.
Return(cause, err, h, run, must) ==
  /\ \E more \in {{}} \cup {{k} : k \in {j \in Kinds : h[j] # Nil}} :
       tombReason' = TeardownReason(tombReason, h, must \cup more, err)
  /\ loopErr' = err
  /\ exitCause' = cause
  /\ handle' = StopAll(h)
  /\ running' = StopRunning(h, run)
  /\ pc' = "done"
  /\ resolved' = "none"
  /\ upgradeFrom' = NoCharm
  /\ upgradeAvailable' = NoCharm
  /\ upgrade' = Nil
  /\ relations' = << >>
  /\ outUpgrade' = FALSE
  /\ outResolved' = FALSE
  /\ outConfig' = FALSE
  /\ outRelations' = FALSE
  /\ discardConfig' = FALSE
  /\ curl' = Nil
  /\ relSeen' = {}
  /\ wantedUpgrade' = FALSE
  /\ observed' = NoneObserved

\* ------------------------------------------------------------- change handlers
\* Variants of upgradeChanged with one of its checks left out: without the
\* comparison of the force flags, and without the "no charm installed yet" return.
upgradeChangedUnforced(lf, from, avail, upg) ==
  IF lf # "alive" THEN [out |-> FALSE, upgrade |-> upg]
  ELSE IF from.url = Nil THEN [out |-> FALSE, upgrade |-> upg]
  ELSE IF avail.url # from.url
    THEN [out |-> TRUE, upgrade |-> avail.url]
  ELSE [out |-> FALSE, upgrade |-> upg]

upgradeChangedUninstalled(lf, from, avail, upg) ==
  IF lf # "alive" THEN [out |-> FALSE, upgrade |-> upg]
  ELSE IF avail.url # from.url /\ (avail.force \/ ~from.force)
    THEN [out |-> TRUE, upgrade |-> avail.url]
  ELSE [out |-> FALSE, upgrade |-> upg]

\* A variant of upgradeChanged without its check of the unit's life.
upgradeChangedAnyLife(lf, from, avail, upg) ==
  IF from.url = Nil THEN [out |-> FALSE, upgrade |-> upg]
  ELSE IF avail.url # from.url /\ (avail.force \/ ~from.force)
    THEN [out |-> TRUE, upgrade |-> avail.url]
  ELSE [out |-> FALSE, upgrade |-> upg]

\* A variant of upgradeChanged that arms only when it stores a new url in f.upgrade.
upgradeChangedOnlyNew(lf, from, avail, upg) ==
  IF lf # "alive" THEN [out |-> FALSE, upgrade |-> upg]
  ELSE IF from.url = Nil THEN [out |-> FALSE, upgrade |-> upg]
  ELSE IF avail.url # from.url /\ (avail.force \/ ~from.force) /\ upg # avail.url
    THEN [out |-> TRUE, upgrade |-> avail.url]
  ELSE [out |-> FALSE, upgrade |-> upg]

\* filter.upgradeChanged: the armed state and pending url it leaves.
upgradeChanged(lf, from, avail, upg) ==
  IF lf # "alive" THEN [out |-> FALSE, upgrade |-> upg]
  ELSE IF from.url = Nil THEN [out |-> FALSE, upgrade |-> upg]
  ELSE IF avail.url # from.url /\ (avail.force \/ ~from.force)
    THEN [out |-> TRUE, upgrade |-> avail.url]
  ELSE [out |-> FALSE, upgrade |-> upg]

\* A variant that returns the error of f.unit.Refresh() as it is.
unitRefreshErrRaw(fail) == ErrBackend

\* The error unitChanged returns when f.unit.Refresh() fails.
unitRefreshErr(fail) == IF fail = "unit.NotFound" THEN ErrTerminateAgent ELSE ErrBackend

\* A variant that returns the error of f.service.Refresh() as it is.
serviceRefreshErrRaw(fail) == ErrBackend

\* The error serviceChanged returns when f.service.Refresh() fails.
serviceRefreshErr(fail) ==
  IF fail = "service.NotFound" THEN ErrServiceRemoved ELSE ErrBackend

\* A variant of unitChanged that closes outUnitDying whenever it reads Dying, not
\* only when the life has changed.
unitChangedRecloses(obs, lf, res, oUpg, oRes, closes) ==
  LET lifeChanged == lf # obs.life
      nowDying == obs.life = "dying"
      nowDead == lifeChanged /\ obs.life = "dead"
      resChanged == ~nowDead /\ obs.resolved # res
  IN  [err |-> IF nowDead THEN ErrTerminateAgent ELSE NoErr,
       life |-> obs.life,
       closes |-> IF nowDying THEN closes + 1 ELSE closes,
       outUpgrade |-> IF nowDying THEN FALSE ELSE oUpg,
       resolved |-> IF resChanged THEN obs.resolved ELSE res,
       outResolved |-> IF resChanged /\ obs.resolved # "none" THEN TRUE ELSE oRes]

\* A variant of unitChanged that leaves the upgrade output alone when the unit
\* becomes Dying.
unitChangedKeepsUpgrade(obs, lf, res, oUpg, oRes, closes) ==
  LET lifeChanged == lf # obs.life
      nowDying == lifeChanged /\ obs.life = "dying"
      nowDead == lifeChanged /\ obs.life = "dead"
      resChanged == ~nowDead /\ obs.resolved # res
  IN  [err |-> IF nowDead THEN ErrTerminateAgent ELSE NoErr,
       life |-> obs.life,
       closes |-> IF nowDying THEN closes + 1 ELSE closes,
       outUpgrade |-> oUpg,
       resolved |-> IF resChanged THEN obs.resolved ELSE res,
       outResolved |-> IF resChanged /\ obs.resolved # "none" THEN TRUE ELSE oRes]

\* A variant of unitChanged that arms the resolved output whenever the mode read
\* is not None, changed or not.
unitChangedRearms(obs, lf, res, oUpg, oRes, closes) ==
  LET lifeChanged == lf # obs.life
      nowDying == lifeChanged /\ obs.life = "dying"
      nowDead == lifeChanged /\ obs.life = "dead"
      resChanged == ~nowDead /\ obs.resolved # res
  IN  [err |-> IF nowDead THEN ErrTerminateAgent ELSE NoErr,
       life |-> obs.life,
       closes |-> IF nowDying THEN closes + 1 ELSE closes,
       outUpgrade |-> IF nowDying THEN FALSE ELSE oUpg,
       resolved |-> IF resChanged THEN obs.resolved ELSE res,
       outResolved |-> IF ~nowDead /\ obs.resolved # "none" THEN TRUE ELSE oRes]

\* A variant of unitChanged that keeps the cached mode when the mode read is None.
unitChangedKeepsMode(obs, lf, res, oUpg, oRes, closes) ==
  LET lifeChanged == lf # obs.life
      nowDying == lifeChanged /\ obs.life = "dying"
      nowDead == lifeChanged /\ obs.life = "dead"
      resChanged == ~nowDead /\ obs.resolved # res /\ obs.resolved # "none"
  IN  [err |-> IF nowDead THEN ErrTerminateAgent ELSE NoErr,
       life |-> obs.life,
       closes |-> IF nowDying THEN closes + 1 ELSE closes,
       outUpgrade |-> IF nowDying THEN FALSE ELSE oUpg,
       resolved |-> IF resChanged THEN obs.resolved ELSE res,
       outResolved |-> IF resChanged THEN TRUE ELSE oRes]

\* filter.unitChanged after a successful Refresh that read obs = [life, resolved]:
\* the error it returns and the fields it leaves.
unitChanged(obs, lf, res, oUpg, oRes, closes) ==
  LET lifeChanged == lf # obs.life
      nowDying == lifeChanged /\ obs.life = "dying"
      nowDead == lifeChanged /\ obs.life = "dead"
      resChanged == ~nowDead /\ obs.resolved # res
  IN  [err |-> IF nowDead THEN ErrTerminateAgent ELSE NoErr,
       life |-> obs.life,
       closes |-> IF nowDying THEN closes + 1 ELSE closes,
       outUpgrade |-> IF nowDying THEN FALSE ELSE oUpg,
       resolved |-> IF resChanged THEN obs.resolved ELSE res,
       outResolved |-> IF resChanged /\ obs.resolved # "none" THEN TRUE ELSE oRes]

\* A variant of serviceChanged that drops the error of f.unit.Destroy().
serviceChangedBestEffort(obs, destroyFails, lf, from, upg, oUpg) ==
  LET avail == [url |-> obs.url, force |-> obs.force]
      err == IF obs.life = "dead" THEN ErrServiceDead ELSE NoErr
      up == upgradeChanged(lf, from, avail, upg)
  IN  [err |-> err,
       upgradeAvailable |-> avail,
       destroyed |-> obs.life = "dying" /\ ~destroyFails,
       outUpgrade |-> IF err = NoErr THEN up.out ELSE oUpg,
       upgrade |-> IF err = NoErr THEN up.upgrade ELSE upg]

\* A variant of serviceChanged that returns after f.unit.Destroy() when the
\* service is dying, without calling upgradeChanged.
serviceChangedDyingReturns(obs, destroyFails, lf, from, upg, oUpg) ==
  LET avail == [url |-> obs.url, force |-> obs.force]
      err == CASE obs.life = "dying" /\ destroyFails -> ErrBackend
               [] obs.life = "dead" -> ErrServiceDead
               [] OTHER -> NoErr
      up == upgradeChanged(lf, from, avail, upg)
      evaluated == err = NoErr /\ obs.life # "dying"
  IN  [err |-> err,
       upgradeAvailable |-> avail,
       destroyed |-> obs.life = "dying" /\ ~destroyFails,
       outUpgrade |-> IF evaluated THEN up.out ELSE oUpg,
       upgrade |-> IF evaluated THEN up.upgrade ELSE upg]

\* filter.serviceChanged after a successful Refresh that read obs = [life, url,
\* force]; destroyFails says whether f.unit.Destroy() fails when it is called.
serviceChanged(obs, destroyFails, lf, from, upg, oUpg) ==
  LET avail == [url |-> obs.url, force |-> obs.force]
      err == CASE obs.life = "dying" /\ destroyFails -> ErrBackend
               [] obs.life = "dead" -> ErrServiceDead
               [] OTHER -> NoErr
      up == upgradeChanged(lf, from, avail, upg)
  IN  [err |-> err,
       upgradeAvailable |-> avail,
       destroyed |-> obs.life = "dying" /\ ~destroyFails,
       outUpgrade |-> IF err = NoErr THEN up.out ELSE oUpg,
       upgrade |-> IF err = NoErr THEN up.upgrade ELSE upg]

\* sort.Ints: the ascending rearrangement of s.
RECURSIVE SortInts(_)
SortInts(s) ==
  IF Len(s) <= 1 THEN s
  ELSE LET m == CHOOSE x \in Elems(s) : \A y \in Elems(s) : x <= y
           i == CHOOSE j \in 1..Len(s) : s[j] = m
           rest == SubSeq(s, 1, i - 1) \o SubSeq(s, i + 1, Len(s))
       IN  <<m>> \o SortInts(rest)

\* The loop of relationsChanged: each id not yet in f.relations is appended.
RECURSIVE appendNew(_, _)
appendNew(rels, ids) ==
  IF ids = << >> THEN rels
  ELSE appendNew(IF Contains(rels, Head(ids)) THEN rels ELSE Append(rels, Head(ids)),
                 Tail(ids))

\* A variant of relationsChanged that arms the output whatever the list holds.
relationsChangedArmsEmpty(rels, ids, oRel) ==
  LET merged == appendNew(rels, ids)
  IN  [relations |-> SortInts(merged), out |-> TRUE]

\* A variant of relationsChanged without its sort.Ints.
relationsChangedUnsorted(rels, ids, oRel) ==
  LET merged == appendNew(rels, ids)
  IN  IF Len(merged) # 0
        THEN [relations |-> merged, out |-> TRUE]
        ELSE [relations |-> merged, out |-> oRel]

\* filter.relationsChanged: the f.relations it leaves and whether the output is armed.
relationsChanged(rels, ids, oRel) ==
  LET merged == appendNew(rels, ids)
  IN  IF Len(merged) # 0
        THEN [relations |-> SortInts(merged), out |-> TRUE]
        ELSE [relations |-> merged, out |-> oRel]

\* What a Refresh of the unit can read, given what the filter last saw: life only
\* advances, and the resolved flag is whatever it was last set or cleared to.
UnitObs ==
  {o \in [life : Lives, resolved : env.modes] :
     /\ LifeRank(o.life) >= LifeRank(life)
     /\ (unitDestroyed => o.life # "alive")}

\* What the Refresh inside the clearResolved case can read: f.unit.ClearResolved()
\* has cleared the flag, and the flag may have been set again since.
ClearedObs == UnitObs

\* What a Refresh of the service can read.
ServiceObs ==
  {o \in [life : Lives, url : env.svcCharms, force : env.forces] :
     LifeRank(o.life) >= LifeRank(svcLife)}

\* ------------------------------------------------------------- initial state
\* The filter as newFilter leaves it, before its goroutine has run, in scenario e.
InitIn(e) ==
  /\ env = e
  /\ pc = "start"
  /\ tombReason = ErrStillAlive
  /\ loopErr = NoErr
  /\ exitCause = Nil
  /\ life = "alive"
  /\ unitDyingCloses = 0
  /\ resolved = "none"
  /\ upgradeFrom = NoCharm
  /\ upgradeAvailable = NoCharm
  /\ upgrade = Nil
  /\ relations = << >>
  /\ outUpgrade = FALSE
  /\ outResolved = FALSE
  /\ outConfig = FALSE
  /\ outRelations = FALSE
  /\ discardConfig = FALSE
  /\ curl = Nil
  /\ handle = [k \in Kinds |-> Nil]
  /\ running = [k \in Kinds |-> 0]
  /\ svcLife = "alive"
  /\ unitDestroyed = FALSE
  /\ unitCharmURL \in e.charms \cup {Nil}
  /\ call = [c \in Callers |-> Idle]
  /\ relSeen = {}
  /\ wantedUpgrade = FALSE
  /\ observed = NoneObserved

\* ------------------------------------------------------------- the loop
StartFaults ==
  {"none", "st.Unit", "unit.Refresh", "unit.NotFound", "unit.Service",
   "service.Refresh", "service.NotFound", "unit.Destroy", "WatchConfigSettings"}

\* filter.loop from its entry to its first select: the unit and the service are
\* fetched and refreshed, and the watchers are started.
LoopStart ==
  /\ pc = "start"
  /\ \E uo \in UnitObs, so \in ServiceObs, fail \in StartFaults :
       LET u == unitChanged(uo, life, resolved, outUpgrade, outResolved, unitDyingCloses)
           unitRef == fail \notin {"st.Unit", "unit.Refresh", "unit.NotFound"}
           unitOk == unitRef /\ u.err = NoErr
           s == serviceChanged(so, fail = "unit.Destroy", u.life, upgradeFrom,
                               upgrade, u.outUpgrade)
           svcRef == unitOk /\ fail \notin {"unit.Service", "service.Refresh",
                                            "service.NotFound"}
           svcOk == svcRef /\ s.err = NoErr
           hasCharm == unitCharmURL # Nil
           cfgFail == svcOk /\ hasCharm /\ fail = "WatchConfigSettings"
           err == CASE fail = "st.Unit" -> ErrBackend
                    [] fail \in {"unit.Refresh", "unit.NotFound"} -> unitRefreshErr(fail)
                    [] unitRef /\ u.err # NoErr -> u.err
                    [] unitOk /\ fail = "unit.Service" -> ErrBackend
                    [] unitOk /\ fail \in {"service.Refresh", "service.NotFound"} ->
                         serviceRefreshErr(fail)
                    [] svcRef /\ s.err # NoErr -> s.err
                    [] cfgFail -> ErrBackend
                    [] OTHER -> NoErr
           cause == CASE ~unitRef -> fail
                      [] unitRef /\ u.err # NoErr -> "unit.Dead"
                      [] unitOk /\ ~svcRef -> fail
                      [] svcRef /\ s.err = ErrServiceDead -> "service.Dead"
                      [] svcRef /\ s.err = ErrBackend -> "unit.Destroy"
                      [] OTHER -> fail
           h == [k \in Kinds |->
                   CASE k \in {"unit", "service"} -> IF svcOk THEN "live" ELSE Nil
                     [] k = "config" ->
                          IF svcOk /\ hasCharm /\ ~cfgFail THEN "live" ELSE Nil
                     [] k = "relations" -> IF svcOk /\ ~cfgFail THEN "live" ELSE Nil]
           run == [k \in Kinds |-> IF h[k] = "live" THEN 1 ELSE 0]
       IN  /\ life' = (IF unitRef THEN u.life ELSE life)
           /\ unitDyingCloses' = (IF unitRef THEN u.closes ELSE unitDyingCloses)
           /\ svcLife' = (IF svcRef THEN so.life ELSE svcLife)
           /\ unitDestroyed' = (unitDestroyed \/ (svcRef /\ s.destroyed))
           /\ IF err = NoErr
                THEN /\ pc' = "select"
                     /\ handle' = h
                     /\ running' = run
                     /\ resolved' = u.resolved
                     /\ outResolved' = u.outResolved
                     /\ outUpgrade' = s.outUpgrade
                     /\ upgradeAvailable' = s.upgradeAvailable
                     /\ upgrade' = s.upgrade
                     /\ upgradeFrom' = (IF hasCharm
                                          THEN [upgradeFrom EXCEPT !.url = unitCharmURL]
                                          ELSE upgradeFrom)
                     /\ observed' = [resolved |-> uo.resolved, url |-> so.url]
                     /\ UNCHANGED <<tombVars, relations, outConfig, outRelations,
                                    discardConfig, curl, relSeen, wantedUpgrade>>
                ELSE Return(cause, err, h, run, {})
  /\ UNCHANGED <<unitCharmURL, call, env, seriesVars>>

\* A variant of the loop whose acknowledgement sends are plain sends, not selects
\* with a dying case.
LoopDyingAtSelect ==
  /\ pc = "select"
  /\ Dying
  /\ Return("tomb.Dying", ErrDying, handle, running, {})
  /\ UNCHANGED <<lifeVars, backendVars, call, env, seriesVars>>

\* case <-f.tomb.Dying(), at the loop's select and at its two acknowledgement
\* selects.
LoopDying ==
  /\ pc \in {"select", "ackSetCharm", "ackClearResolved"}
  /\ Dying
  /\ Return("tomb.Dying", ErrDying, handle, running, {})
  /\ UNCHANGED <<lifeVars, backendVars, call, env, seriesVars>>

\* case _, ok = <-unitw.Changes()
UnitChange ==
  /\ pc = "select"
  /\ \/ /\ Return("unitw.Changes", MustErr("unit"), handle, running, {"unit"})
        /\ UNCHANGED lifeVars
     \/ /\ \E fail \in {"unit.Refresh", "unit.NotFound"} :
             Return(fail, unitRefreshErr(fail), handle, running, {})
        /\ UNCHANGED lifeVars
     \/ \E uo \in UnitObs :
          LET u == unitChanged(uo, life, resolved, outUpgrade, outResolved,
                               unitDyingCloses)
          IN  /\ life' = u.life
              /\ unitDyingCloses' = u.closes
              /\ IF u.err = NoErr
                   THEN /\ resolved' = u.resolved
                        /\ outUpgrade' = u.outUpgrade
                        /\ outResolved' = u.outResolved
                        /\ observed' = [observed EXCEPT !.resolved = uo.resolved]
                        /\ UNCHANGED <<pc, tombVars, watcherVars, upgradeFrom,
                                       upgradeAvailable, upgrade, relations, outConfig,
                                       outRelations, discardConfig, curl, relSeen,
                                       wantedUpgrade>>
                   ELSE Return("unit.Dead", u.err, handle, running, {})
  /\ UNCHANGED <<backendVars, call, env, seriesVars>>

\* case _, ok = <-servicew.Changes()
ServiceChange ==
  /\ pc = "select"
  /\ \/ /\ Return("servicew.Changes", MustErr("service"), handle, running,
                  {"service"})
        /\ UNCHANGED backendVars
     \/ /\ \E fail \in {"service.Refresh", "service.NotFound"} :
             Return(fail, serviceRefreshErr(fail), handle, running, {})
        /\ UNCHANGED backendVars
     \/ \E so \in ServiceObs, destroyFails \in BOOLEAN :
          LET s == serviceChanged(so, destroyFails, life, upgradeFrom, upgrade,
                                  outUpgrade)
          IN  /\ destroyFails => so.life = "dying"
              /\ svcLife' = so.life
              /\ unitDestroyed' = (unitDestroyed \/ s.destroyed)
              /\ UNCHANGED unitCharmURL
              /\ IF s.err = NoErr
                   THEN /\ upgradeAvailable' = s.upgradeAvailable
                        /\ outUpgrade' = s.outUpgrade
                        /\ upgrade' = s.upgrade
                        /\ observed' = [observed EXCEPT !.url = so.url]
                        /\ UNCHANGED <<pc, tombVars, watcherVars, resolved, upgradeFrom,
                                       relations, outResolved, outConfig, outRelations,
                                       discardConfig, curl, relSeen, wantedUpgrade>>
                   ELSE Return(IF s.err = ErrServiceDead THEN "service.Dead"
                                                           ELSE "unit.Destroy",
                               s.err, handle, running, {})
  /\ UNCHANGED <<lifeVars, call, env, seriesVars>>

\* case _, ok = <-configChanges (a nil channel while there is no config watcher)
ConfigChange ==
  /\ pc = "select"
  /\ handle["config"] = "live"
  /\ \/ Return("configw.Changes", MustErr("config"), handle, running, {"config"})
     \/ /\ outConfig' = TRUE
        /\ discardConfig' = TRUE
        /\ UNCHANGED <<pc, tombVars, watcherVars, resolved, upgradeFrom,
                       upgradeAvailable, upgrade, relations, outUpgrade, outResolved,
                       outRelations, curl, relSeen, wantedUpgrade, observed>>
  /\ UNCHANGED <<lifeVars, backendVars, call, env, seriesVars>>

\* case ids, ok := <-relationsw.Changes()
RelationsChange ==
  /\ pc = "select"
  /\ \/ Return("relationsw.Changes", MustErr("relations"), handle, running,
               {"relations"})
     \/ \E ids \in SeqsUpTo(env.relIds, env.notifyLen) :
          LET r == relationsChanged(relations, ids, outRelations)
          IN  /\ relations' = r.relations
              /\ outRelations' = r.out
              /\ relSeen' = relSeen \cup Elems(ids)
              /\ UNCHANGED <<pc, tombVars, watcherVars, resolved, upgradeFrom,
                             upgradeAvailable, upgrade, outUpgrade, outResolved,
                             outConfig, discardConfig, curl, wantedUpgrade, observed>>
  /\ UNCHANGED <<lifeVars, backendVars, call, env, seriesVars>>

\* case f.outUpgrade <- f.upgrade, read from UpgradeEvents
SendUpgrade ==
  /\ pc = "select"
  /\ outUpgrade
  /\ outUpgrade' = FALSE
  /\ UNCHANGED <<pc, tombVars, lifeVars, resolved, upgradeFrom, upgradeAvailable,
                 upgrade, relations, outResolved, outConfig, outRelations,
                 discardConfig, curl, relSeen, wantedUpgrade, observed, watcherVars,
                 backendVars, call, env, seriesVars>>

\* case f.outResolved <- f.resolved, read from ResolvedEvents
SendResolved ==
  /\ pc = "select"
  /\ outResolved
  /\ outResolved' = FALSE
  /\ UNCHANGED <<pc, tombVars, lifeVars, resolved, upgradeFrom, upgradeAvailable,
                 upgrade, relations, outUpgrade, outConfig, outRelations,
                 discardConfig, curl, relSeen, wantedUpgrade, observed, watcherVars,
                 backendVars, call, env, seriesVars>>

\* case f.outConfig <- nothing, read from ConfigEvents
SendConfig ==
  /\ pc = "select"
  /\ outConfig
  /\ outConfig' = FALSE
  /\ UNCHANGED <<pc, tombVars, lifeVars, resolved, upgradeFrom, upgradeAvailable,
                 upgrade, relations, outUpgrade, outResolved, outRelations,
                 discardConfig, curl, relSeen, wantedUpgrade, observed, watcherVars,
                 backendVars, call, env, seriesVars>>

\* A variant of the send on RelationsEvents that keeps f.relations.
SendRelationsKeepsList ==
  /\ pc = "select"
  /\ outRelations
  /\ outRelations' = FALSE
  /\ relSeen' = {}
  /\ UNCHANGED <<pc, tombVars, lifeVars, resolved, upgradeFrom, upgradeAvailable,
                 upgrade, relations, outUpgrade, outResolved, outConfig, discardConfig,
                 curl, wantedUpgrade, observed, watcherVars, backendVars, call, env, seriesVars>>

\* case f.outRelations <- f.relations, read from RelationsEvents
SendRelations ==
  /\ pc = "select"
  /\ outRelations
  /\ outRelations' = FALSE
  /\ relations' = << >>
  /\ relSeen' = {}
  /\ UNCHANGED <<pc, tombVars, lifeVars, resolved, upgradeFrom, upgradeAvailable,
                 upgrade, outUpgrade, outResolved, outConfig, discardConfig, curl,
                 wantedUpgrade, observed, watcherVars, backendVars, call, env, seriesVars>>

\* filter.Stop: f.tomb.Kill(nil); its Wait returns tombReason once the loop is done.
Stop ==
  /\ tombReason = ErrStillAlive
  /\ tombReason' = Kill(tombReason, NoErr)
  /\ UNCHANGED <<pc, loopErr, exitCause, lifeVars, cacheVars, watcherVars, backendVars,
                 call, env, seriesVars>>

\* A variant of the assignment below that leaves upgradeFrom.url as it was.
upgradeFromKept(from, u) == from

\* f.upgradeFrom.url = curl
upgradeFromURL(from, u) == [from EXCEPT !.url = u]

\* ------------------------------------------------------------- request cases
\* A variant of the Stop of a watcher that is to be replaced which does nothing.
stopWatcherSkipped(run, h, k) == run

\* configw.Stop(), relationsw.Stop() of the setCharm case: the watcher the loop
\* holds, if it is live, is no longer running.
stopWatcher(run, h, k) == [run EXCEPT ![k] = IF h[k] = "live" THEN @ - 1 ELSE @]

\* f.unit.WatchConfigSettings(), f.service.WatchRelations() of the setCharm case.
startWatcher(run, k) == [run EXCEPT ![k] = @ + 1]

\* case curl := <-f.setCharm, up to the select that sends the acknowledgement.
CaseSetCharm(u) ==
  /\ pc = "select"
  /\ LET stopped == [handle EXCEPT !["config"] = IF @ = Nil THEN Nil ELSE "stopped"]
         ran == stopWatcher(running, handle, "config")
     IN  \/ /\ handle["config"] = "live"
            /\ Return("configw.Stop", WatcherErr("config"), handle, running, {"config"})
            /\ UNCHANGED unitCharmURL
         \/ /\ Return("unit.SetCharmURL", ErrBackend, stopped, ran, {})
            /\ UNCHANGED unitCharmURL
         \/ /\ handle' = stopped
            /\ running' = ran
            /\ unitCharmURL' = u
            /\ curl' = u
            /\ pc' = "ackSetCharm"
            /\ UNCHANGED <<tombVars, resolved, upgradeFrom, upgradeAvailable, upgrade,
                           relations, outUpgrade, outResolved, outConfig, outRelations,
                           discardConfig, relSeen, wantedUpgrade, observed>>
  /\ UNCHANGED <<lifeVars, svcLife, unitDestroyed, env, seriesVars>>

\* A variant of the setCharm case that disarms the config output before it
\* acknowledges.
CaseDidSetCharmWiping ==
  /\ pc = "ackSetCharm"
  /\ pc' = "restSetCharm"
  /\ outConfig' = FALSE
  /\ UNCHANGED <<tombVars, lifeVars, resolved, upgradeFrom, upgradeAvailable, upgrade,
                 relations, outUpgrade, outResolved, outRelations, discardConfig, curl,
                 relSeen, wantedUpgrade, observed, watcherVars, backendVars, env, seriesVars>>

\* case f.didSetCharm <- nothing: the caller's <-f.didSetCharm receives it.
CaseDidSetCharm ==
  /\ pc = "ackSetCharm"
  /\ pc' = "restSetCharm"
  /\ UNCHANGED <<tombVars, lifeVars, cacheVars, watcherVars, backendVars, env, seriesVars>>

\* The rest of the setCharm case, after the acknowledgement: a fresh config
\* watcher, the relations watcher restarted, upgradeFrom.url set, upgradeChanged.
RestSetCharm ==
  /\ pc = "restSetCharm"
  /\ \/ Return("WatchConfigSettings", ErrBackend, [handle EXCEPT !["config"] = Nil],
               running, {})
     \/ Return("relationsw.Stop", WatcherErr("relations"),
               [handle EXCEPT !["config"] = "live"],
               startWatcher(running, "config"), {"relations"})
     \/ LET from == upgradeFromURL(upgradeFrom, curl)
            up == upgradeChanged(life, from, upgradeAvailable, upgrade)
        IN  /\ handle' = [handle EXCEPT !["config"] = "live", !["relations"] = "live"]
            /\ running' = startWatcher(stopWatcher(startWatcher(running, "config"),
                                                    handle, "relations"),
                                        "relations")
            /\ upgradeFrom' = from
            /\ outUpgrade' = up.out
            /\ upgrade' = up.upgrade
            /\ curl' = Nil
            /\ pc' = "select"
            /\ UNCHANGED <<tombVars, resolved, upgradeAvailable, relations, outResolved,
                           outConfig, outRelations, discardConfig, relSeen,
                           wantedUpgrade, observed>>
  /\ UNCHANGED <<lifeVars, backendVars, call, env, seriesVars>>

\* case force := <-f.wantForcedUpgrade
CaseWantForcedUpgrade(force) ==
  /\ pc = "select"
  /\ LET from == [upgradeFrom EXCEPT !.force = force]
         up == upgradeChanged(life, from, upgradeAvailable, upgrade)
     IN  /\ upgradeFrom' = from
         /\ outUpgrade' = up.out
         /\ upgrade' = up.upgrade
  /\ wantedUpgrade' = TRUE
  /\ UNCHANGED <<pc, tombVars, lifeVars, resolved, upgradeAvailable, relations,
                 outResolved, outConfig, outRelations, discardConfig, curl, relSeen,
                 observed, watcherVars, backendVars, env, seriesVars>>

\* A variant of the wantResolved case that arms nothing.
CaseWantResolvedIgnored ==
  /\ pc = "select"
  /\ UNCHANGED <<pc, tombVars, lifeVars, cacheVars, watcherVars, backendVars, env, seriesVars>>

\* A variant of the wantResolved case without its check of f.resolved.
CaseWantResolvedAlways ==
  /\ pc = "select"
  /\ outResolved' = TRUE
  /\ UNCHANGED <<pc, tombVars, lifeVars, resolved, upgradeFrom, upgradeAvailable,
                 upgrade, relations, outUpgrade, outConfig, outRelations, discardConfig,
                 curl, relSeen, wantedUpgrade, observed, watcherVars, backendVars, env, seriesVars>>

\* case <-f.wantResolved
CaseWantResolved ==
  /\ pc = "select"
  /\ outResolved' = (IF resolved # "none" THEN TRUE ELSE outResolved)
  /\ UNCHANGED <<pc, tombVars, lifeVars, resolved, upgradeFrom, upgradeAvailable,
                 upgrade, relations, outUpgrade, outConfig, outRelations, discardConfig,
                 curl, relSeen, wantedUpgrade, observed, watcherVars, backendVars, env, seriesVars>>

\* case <-f.clearResolved, up to the select that sends the acknowledgement.
CaseClearResolved ==
  /\ pc = "select"
  /\ \/ /\ \/ Return("unit.ClearResolved", ErrBackend, handle, running, {})
           \/ \E fail \in {"unit.Refresh", "unit.NotFound"} :
                Return(fail, unitRefreshErr(fail), handle, running, {})
        /\ UNCHANGED lifeVars
     \/ \E uo \in ClearedObs :
          LET u == unitChanged(uo, life, resolved, outUpgrade, FALSE, unitDyingCloses)
          IN  /\ life' = u.life
              /\ unitDyingCloses' = u.closes
              /\ IF u.err = NoErr
                   THEN /\ resolved' = u.resolved
                        /\ outUpgrade' = u.outUpgrade
                        /\ outResolved' = u.outResolved
                        /\ pc' = "ackClearResolved"
                        /\ observed' = [observed EXCEPT !.resolved = uo.resolved]
                        /\ UNCHANGED <<tombVars, watcherVars, upgradeFrom,
                                       upgradeAvailable, upgrade, relations, outConfig,
                                       outRelations, discardConfig, curl, relSeen,
                                       wantedUpgrade>>
                   ELSE Return("unit.Dead", u.err, handle, running, {})
  /\ UNCHANGED <<backendVars, env, seriesVars>>

\* case f.didClearResolved <- nothing: the caller's <-f.didClearResolved receives it.
CaseDidClearResolved ==
  /\ pc = "ackClearResolved"
  /\ pc' = "select"
  /\ UNCHANGED <<tombVars, lifeVars, cacheVars, watcherVars, backendVars, env, seriesVars>>

\* A variant of the discard case that receives from f.discardConfig itself, not
\* from the local channel that is nil until the first config change.
CaseDiscardConfigAlways ==
  /\ pc = "select"
  /\ outConfig' = FALSE
  /\ UNCHANGED <<pc, tombVars, lifeVars, resolved, upgradeFrom, upgradeAvailable,
                 upgrade, relations, outUpgrade, outResolved, outRelations,
                 discardConfig, curl, relSeen, wantedUpgrade, observed, watcherVars,
                 backendVars, env, seriesVars>>

\* case <-discardConfig (a nil channel until the first config change)
CaseDiscardConfig ==
  /\ pc = "select"
  /\ discardConfig
  /\ outConfig' = FALSE
  /\ UNCHANGED <<pc, tombVars, lifeVars, resolved, upgradeFrom, upgradeAvailable,
                 upgrade, relations, outUpgrade, outResolved, outRelations,
                 discardConfig, curl, relSeen, wantedUpgrade, observed, watcherVars,
                 backendVars, env, seriesVars>>

\* ------------------------------------------------------------- requests, as inputs
\* A request method whose send the loop receives at once; a caller that is blocked
\* in its send has no effect on the loop and is left out here (see the callers
\* below).  While pc is at an acknowledgement the caller is in its second select.
SetCharm == (\E u \in env.charms : CaseSetCharm(u)) /\ UNCHANGED call
SetCharmAck == CaseDidSetCharm /\ UNCHANGED call
WantUpgradeEvent == (\E mustForce \in BOOLEAN : CaseWantForcedUpgrade(mustForce))
                    /\ UNCHANGED call
WantResolvedEvent == CaseWantResolved /\ UNCHANGED call
ClearResolved == CaseClearResolved /\ UNCHANGED call
ClearResolvedAck == CaseDidClearResolved /\ UNCHANGED call
DiscardConfigEvent == CaseDiscardConfig /\ UNCHANGED call

LoopStep ==
  \/ LoopStart
  \/ LoopDying
  \/ UnitChange
  \/ ServiceChange
  \/ ConfigChange
  \/ RelationsChange
  \/ SendUpgrade
  \/ SendResolved
  \/ SendConfig
  \/ SendRelations
  \/ RestSetCharm

Next ==
  \/ LoopStep
  \/ Stop
  \/ SetCharm
  \/ SetCharmAck
  \/ WantUpgradeEvent
  \/ WantResolvedEvent
  \/ ClearResolved
  \/ ClearResolvedAck
  \/ DiscardConfigEvent

\* ------------------------------------------------------------- callers
\* The request methods run by goroutines of their own: each select of a method is a
\* phase, "send" for the request and "wait" for the acknowledgement.
SyncOps == {"SetCharm", "ClearResolved"}
AsyncOps == {"WantUpgradeEvent", "WantResolvedEvent", "DiscardConfigEvent"}
ArgsOf(op) ==
  CASE op = "SetCharm" -> env.charms
    [] op = "WantUpgradeEvent" -> {"mustForce", "any"}
    [] OTHER -> {Nil}

Sending(c, op) == call[c].op = op /\ call[c].phase = "send"
Waiting(c, op) == call[c].op = op /\ call[c].phase = "wait"
\* A variant of the receipt of a request in which the method returns nil at once,
\* without its second select.
ReceivedAndReturned(c) ==
  [call EXCEPT ![c] = [op |-> call[c].op, arg |-> Nil, phase |-> "ok"]]

\* The caller's send was received: it goes on to its second select.
Received(c) == [call EXCEPT ![c].phase = "wait"]
\* The method returns: nil ("ok") or tomb.ErrDying ("dying") from a method that
\* returns an error, nothing from the others.
Returned(c, how) ==
  [call EXCEPT ![c] = IF call[c].op \in SyncOps
                        THEN [op |-> call[c].op, arg |-> Nil, phase |-> how]
                        ELSE Idle]

\* A caller enters a request method and reaches its first select.
Call(c) ==
  /\ call[c].phase \in {"idle", "ok", "dying"}
  /\ \E op \in SyncOps \cup AsyncOps : \E a \in ArgsOf(op) :
       call' = [call EXCEPT ![c] = [op |-> op, arg |-> a, phase |-> "send"]]
  /\ UNCHANGED <<pc, tombVars, lifeVars, cacheVars, watcherVars, backendVars, env, seriesVars>>

\* A variant of the request methods whose wait for the acknowledgement is a plain
\* receive, not a select with a dying case.
CallerDyingInSend(c) ==
  /\ call[c].phase = "send"
  /\ Dying
  /\ call' = Returned(c, "dying")
  /\ UNCHANGED <<pc, tombVars, lifeVars, cacheVars, watcherVars, backendVars, env, seriesVars>>

\* case <-f.tomb.Dying() in either select of a request method.
CallerDying(c) ==
  /\ call[c].phase \in {"send", "wait"}
  /\ Dying
  /\ call' = Returned(c, "dying")
  /\ UNCHANGED <<pc, tombVars, lifeVars, cacheVars, watcherVars, backendVars, env, seriesVars>>

\* A variant of SetCharm with one select, in which the caller receives from
\* f.didSetCharm while its request is still unsent.
AckSetCharmUnsent(c) ==
  /\ call[c].op = "SetCharm" /\ call[c].phase \in {"send", "wait"}
  /\ CaseDidSetCharm
  /\ call' = Returned(c, "ok")

RecvSetCharm(c) ==
  /\ Sending(c, "SetCharm")
  /\ CaseSetCharm(call[c].arg)
  /\ call' = Received(c)

AckSetCharm(c) ==
  /\ Waiting(c, "SetCharm")
  /\ CaseDidSetCharm
  /\ call' = Returned(c, "ok")

RecvWantUpgradeEvent(c) ==
  /\ Sending(c, "WantUpgradeEvent")
  /\ CaseWantForcedUpgrade(call[c].arg = "mustForce")
  /\ call' = Returned(c, "ok")

RecvWantResolvedEvent(c) ==
  /\ Sending(c, "WantResolvedEvent")
  /\ CaseWantResolved
  /\ call' = Returned(c, "ok")

RecvClearResolved(c) ==
  /\ Sending(c, "ClearResolved")
  /\ CaseClearResolved
  /\ call' = Received(c)

AckClearResolved(c) ==
  /\ Waiting(c, "ClearResolved")
  /\ CaseDidClearResolved
  /\ call' = Returned(c, "ok")

RecvDiscardConfigEvent(c) ==
  /\ Sending(c, "DiscardConfigEvent")
  /\ CaseDiscardConfig
  /\ call' = Returned(c, "ok")

CallerStep(c) ==
  \/ Call(c)
  \/ CallerDying(c)
  \/ RecvSetCharm(c)
  \/ AckSetCharm(c)
  \/ RecvWantUpgradeEvent(c)
  \/ RecvWantResolvedEvent(c)
  \/ RecvClearResolved(c)
  \/ AckClearResolved(c)
  \/ RecvDiscardConfigEvent(c)

\* A caller enters SetCharm or ClearResolved and reaches its first select.
CallSync(c) ==
  /\ call[c].phase \in {"idle", "ok", "dying"}
  /\ \E op \in SyncOps : \E a \in ArgsOf(op) :
       call' = [call EXCEPT ![c] = [op |-> op, arg |-> a, phase |-> "send"]]
  /\ UNCHANGED <<pc, tombVars, lifeVars, cacheVars, watcherVars, backendVars, env, seriesVars>>

\* The steps of a caller that only calls SetCharm and ClearResolved.
SyncStep(c) ==
  \/ CallSync(c)
  \/ CallerDying(c)
  \/ RecvSetCharm(c)
  \/ AckSetCharm(c)
  \/ RecvClearResolved(c)
  \/ AckClearResolved(c)

NextSync ==
  \/ LoopStep
  \/ Stop
  \/ \E c \in env.callers : SyncStep(c)

NextCalls ==
  \/ LoopStep
  \/ Stop
  \/ \E c \in env.callers : CallerStep(c)

\* ------------------------------------------------------------- the upgrade-series worker
UnitIds == 1..MaxUnits

\* model.UpgradeSeriesStatus, of the machine and of each of its units.
NotStarted == "not started"
PrepareStarted == "prepare started"
PrepareMachine == "prepare machine"
PrepareCompleted == "prepare completed"
CompleteStarted == "complete started"
Completed == "completed"
SeriesStatuses ==
  {NotStarted, PrepareStarted, PrepareMachine, PrepareCompleted, CompleteStarted, Completed}

\* The error a failing call of the worker returns, by the call that failed.
SeriesErr(op) == "error: " \o op
ServiceErrs == {SeriesErr("DiscoverService"), SeriesErr("Running"), SeriesErr("Stop"),
                SeriesErr("Start")}
CompareErrs == {SeriesErr("UnitsPrepared"), SeriesErr("UnitsCompleted"),
                SeriesErr("ListServices")}

\* The worker, its backend and the init system before the worker's goroutine has
\* run: the machine's lock has just been created, units us are on the machine and
\* the init system holds the unit agent services sv.
SeriesInit(us, sv) ==
  /\ wpc = "start"
  /\ werr = NoErr
  /\ wdying = FALSE
  /\ machineStatus = PrepareStarted
  /\ unitStatus = us
  /\ agentService = sv

\* A machine without units, whose worker never runs.
NoSeries ==
  SeriesInit([u \in UnitIds |-> NotStarted], [u \in UnitIds |-> "absent"])

\* w.UnitsPrepared() and w.UnitsCompleted(): the tags of the machine's units whose
\* upgrade-series status is PrepareCompleted, and Completed.
UnitsIn(st) == {u \in UnitIds : unitStatus[u] = st}
UnitsPrepared == UnitsIn(PrepareCompleted)
UnitsCompleted == UnitsIn(Completed)

\* w.service.ListServices(): the names of the services of the local init system,
\* the machine agent's own among them.
ServiceName(u) == [agent |-> "unit", id |-> u]
MachineService == [agent |-> "machine", id |-> 0]
ListServices ==
  {MachineService} \cup {ServiceName(u) : u \in {v \in UnitIds : agentService[v] # "absent"}}

\* service.FindUnitServiceNames: of the given service names those of unit agents, as
\* a map from the unit's id to the service name.
FindUnitServiceNames(services) ==
  [u \in {s.id : s \in {t \in services : t.agent = "unit"}} |-> ServiceName(u)]

\* compareUnitAgentServices without its comparison of the two lengths.
compareUnitAgentServicesAnyCount(units) ==
  LET unitServices == FindUnitServiceNames(ListServices)
  IN  [unitServices |-> unitServices,
       allConfirmed |-> \A u \in units : u \in DOMAIN unitServices]

\* compareUnitAgentServices, given the unit tags getUnits() returned and when
\* neither getUnits nor ListServices failed: the map of unit agent services and
\* the boolean returned with it.
compareUnitAgentServices(units) ==
  LET unitServices == FindUnitServiceNames(ListServices)
  IN  [unitServices |-> unitServices,
       allConfirmed |-> /\ Cardinality(units) = Cardinality(DOMAIN unitServices)
                        /\ \A u \in units : u \in DOMAIN unitServices]

\* What one run of handleUpgradeSeriesChange leaves: the error it returns, the
\* machine's status, the unit agent services and the units' statuses.
Outcome(e, st, sv, us) == [err |-> e, status |-> st, services |-> sv, units |-> us]
Same(e) == Outcome(e, machineStatus, agentService, unitStatus)

\* The init system once the loop over unitServices has been through the services
\* of the units S: svc.Stop() (or svc.Start()) has run on those that were (not)
\* running.
Handled(S, from, to) ==
  [u \in UnitIds |-> IF u \in S /\ agentService[u] = from THEN to ELSE agentService[u]]

\* The loop of transitionPrepareMachine and of transitionUnitsStarted leaving with
\* an error: at the service of unit x, after the services of any S of the others
\* (a map is ranged over in no fixed order), in DiscoverService, in Running or, if
\* the service is in state from, in the call op that would bring it to state to.
LoopFailures(ids, from, to, op) ==
  UNION {UNION {{Outcome(e, machineStatus, Handled(S, from, to), unitStatus) :
                   e \in {SeriesErr("DiscoverService"), SeriesErr("Running")}
                         \cup (IF agentService[x] = from THEN {SeriesErr(op)} ELSE {})} :
                S \in SUBSET (ids \ {x})} :
         x \in ids}

\* transitionPrepareMachine setting the status without a look at the services.
transitionPrepareMachineUnstopped(unitServices) ==
  {Outcome(NoErr, PrepareMachine, agentService, unitStatus),
   Outcome(SeriesErr("SetMachineStatus"), machineStatus, agentService, unitStatus)}

transitionPrepareMachine(unitServices) ==
  LET ids == DOMAIN unitServices
      stopped == Handled(ids, "running", "stopped")
  IN  LoopFailures(ids, "running", "stopped", "Stop")
        \cup {Outcome(NoErr, PrepareMachine, stopped, unitStatus),
              Outcome(SeriesErr("SetMachineStatus"), machineStatus, stopped, unitStatus)}

handlePrepareStarted ==
  {Same(SeriesErr("UnitsPrepared")), Same(SeriesErr("ListServices"))}
    \cup LET c == compareUnitAgentServices(UnitsPrepared)
         IN  IF ~c.allConfirmed THEN {Same(NoErr)}
             ELSE transitionPrepareMachine(c.unitServices)

transitionPrepareComplete ==
  {Outcome(NoErr, PrepareCompleted, agentService, unitStatus),
   Same(SeriesErr("SetMachineStatus"))}

handlePrepareMachine ==
  {Same(SeriesErr("UnitsPrepared")), Same(SeriesErr("ListServices"))}
    \cup transitionPrepareComplete

\* StartUnitCompletion moves every unit of the machine's lock to CompleteStarted.
transitionUnitsStarted(unitServices) ==
  LET ids == DOMAIN unitServices
      started == Handled(ids, "stopped", "running")
      completing == [u \in UnitIds |-> IF unitStatus[u] = NotStarted THEN NotStarted
                                       ELSE CompleteStarted]
  IN  LoopFailures(ids, "stopped", "running", "Start")
        \cup {Outcome(NoErr, machineStatus, started, completing),
              Outcome(SeriesErr("StartUnitCompletion"), machineStatus, started, unitStatus)}

handleCompleteStarted ==
  {Same(SeriesErr("UnitsPrepared")), Same(SeriesErr("ListServices"))}
    \cup LET c == compareUnitAgentServices(UnitsPrepared)
             d == compareUnitAgentServices(UnitsCompleted)
         IN  IF c.allConfirmed THEN transitionUnitsStarted(c.unitServices)
             ELSE {Same(SeriesErr("UnitsCompleted")), Same(SeriesErr("ListServices"))}
                    \cup IF d.allConfirmed
                         THEN {Outcome(NoErr, Completed, agentService, unitStatus),
                               Same(SeriesErr("SetMachineStatus"))}
                         ELSE {Same(NoErr)}

\* handleUpgradeSeriesChange: MachineStatus may fail; a lock that is not found is
\* logged and nothing else is done.
handleUpgradeSeriesChange ==
  {Same(SeriesErr("MachineStatus")), Same(NoErr)}
    \cup CASE machineStatus = PrepareStarted -> handlePrepareStarted
           [] machineStatus = PrepareMachine -> handlePrepareMachine
           [] machineStatus = CompleteStarted -> handleCompleteStarted
           [] OTHER -> {Same(NoErr)}

seriesFilterVars == <<pc, tombVars, lifeVars, cacheVars, watcherVars, backendVars, call, env>>

\* upgradeSeriesWorker.loop returns err.
SeriesReturn(err) ==
  /\ wpc' = "done"
  /\ werr' = err

\* loop from its entry to its select: the watcher is started and added to the
\* catacomb, which refuses it when it is dying already.
SeriesStart ==
  /\ wpc = "start"
  /\ \/ SeriesReturn(SeriesErr("WatchUpgradeSeriesNotifications"))
     \/ wdying /\ SeriesReturn(SeriesErr("catacomb.Add"))
     \/ ~wdying /\ wpc' = "select" /\ werr' = werr
  /\ UNCHANGED <<wdying, machineStatus, unitStatus, agentService, seriesFilterVars>>

\* case <-w.catacomb.Dying()
SeriesDying ==
  /\ wpc = "select"
  /\ wdying
  /\ SeriesReturn(ErrDying)
  /\ UNCHANGED <<wdying, machineStatus, unitStatus, agentService, seriesFilterVars>>

\* case <-uw.Changes()
SeriesChange ==
  /\ wpc = "select"
  /\ \E o \in handleUpgradeSeriesChange :
       /\ machineStatus' = o.status
       /\ agentService' = o.services
       /\ unitStatus' = o.units
       /\ IF o.err = NoErr THEN UNCHANGED <<wpc, werr>> ELSE SeriesReturn(o.err)
  /\ UNCHANGED <<wdying, seriesFilterVars>>

\* Kill, or the watcher failing: the catacomb is dying from then on.
SeriesKill ==
  /\ ~wdying
  /\ wdying' = TRUE
  /\ UNCHANGED <<wpc, werr, machineStatus, unitStatus, agentService, seriesFilterVars>>

\* The agent of unit u reports that it has prepared, or completed, its part of the
\* series upgrade.
UnitPrepares(u) ==
  /\ unitStatus[u] = PrepareStarted
  /\ unitStatus' = [unitStatus EXCEPT ![u] = PrepareCompleted]
  /\ UNCHANGED <<wpc, werr, wdying, machineStatus, agentService, seriesFilterVars>>

UnitCompletes(u) ==
  /\ unitStatus[u] = CompleteStarted
  /\ unitStatus' = [unitStatus EXCEPT ![u] = Completed]
  /\ UNCHANGED <<wpc, werr, wdying, machineStatus, agentService, seriesFilterVars>>

\* The operator runs the completion command on a machine that has been prepared.
OperatorCompletes ==
  /\ machineStatus = PrepareCompleted
  /\ machineStatus' = CompleteStarted
  /\ UNCHANGED <<wpc, werr, wdying, unitStatus, agentService, seriesFilterVars>>

NextSeries ==
  \/ SeriesStart
  \/ SeriesDying
  \/ SeriesChange
  \/ SeriesKill
  \/ \E u \in UnitIds : UnitPrepares(u)
  \/ \E u \in UnitIds : UnitCompletes(u)
  \/ OperatorCompletes

\* ------------------------------------------------------------- scenarios
\* A scenario: the charm URLs SetCharm is given and the unit may start on, the
\* charm URLs and force flags the service announces, the resolved modes of the
\* unit, the relation ids and the longest id list of a relations change, and the
\* callers that run request methods.
OneRel == {1}

\* Every charm and force flag; one relation, and a unit that is resolved with
\* NoHooks if at all.
Charmed == [charms |-> Charms, svcCharms |-> Charms, forces |-> BOOLEAN,
            modes |-> {"none", "no-hooks"}, relIds |-> OneRel, notifyLen |-> 1,
            callers |-> {}]

\* Every resolved mode; one relation, a unit on cs:foo-1 (or on no charm) and a
\* service on cs:foo-2.
Resolving == [charms |-> {CharmURLs[1]}, svcCharms |-> {CharmURLs[2]},
              forces |-> {FALSE}, modes |-> Modes, relIds |-> OneRel, notifyLen |-> 1,
              callers |-> {}]

\* Every relation id; a unit on cs:foo-1 (or on no charm) and a service on cs:foo-2.
Related == [charms |-> {CharmURLs[1]}, svcCharms |-> {CharmURLs[2]}, forces |-> {FALSE},
            modes |-> {"none", "retry-hooks"}, relIds |-> RelIds,
            notifyLen |-> MaxNotifyLen, callers |-> {}]

\* One caller goroutine; a unit on cs:foo-1 (or on no charm) and a service on
\* cs:foo-2.
Called == [charms |-> {CharmURLs[1]}, svcCharms |-> {CharmURLs[2]}, forces |-> {FALSE},
           modes |-> {"none", "retry-hooks"}, relIds |-> OneRel, notifyLen |-> 1,
           callers |-> {"c1"}]

\* Every resolved mode and three charms of the service; a unit on cs:foo-1 (or on
\* no charm).
Coalescing == [charms |-> {CharmURLs[1]},
               svcCharms |-> {CharmURLs[1], CharmURLs[2], CharmURLs[3]},
               forces |-> {FALSE}, modes |-> Modes, relIds |-> OneRel, notifyLen |-> 1,
               callers |-> {}]

\* Two caller goroutines; a unit on cs:foo-1 or cs:foo-2 (or on no charm), either
\* of which SetCharm may be given, and a service on cs:foo-2.
Contended == [charms |-> {CharmURLs[1], CharmURLs[2]}, svcCharms |-> {CharmURLs[2]},
              forces |-> {FALSE}, modes |-> {"none", "retry-hooks"}, relIds |-> OneRel,
              notifyLen |-> 1, callers |-> {"c1", "c2"}]

Init == InitIn(Charmed) /\ NoSeries
Spec == Init /\ [][Next]_vars

InitRes == InitIn(Resolving) /\ NoSeries
SpecRes == InitRes /\ [][Next]_vars

InitRel == InitIn(Related) /\ NoSeries
SpecRel == InitRel /\ [][Next]_vars

\* Scheduling with consumers that keep waiting on ConfigEvents, ResolvedEvents and
\* RelationsEvents and callers that keep waiting for their acknowledgements: the
\* loop's goroutine runs when it can, and a send case of its select that is ready
\* again and again is taken in the end, the select choosing at random among its
\* ready cases.
FairRes ==
  /\ SpecRes
  /\ WF_vars(LoopStart)
  /\ WF_vars(RestSetCharm)
  /\ WF_vars(SetCharmAck)
  /\ WF_vars(ClearResolvedAck)
  /\ SF_vars(SendConfig)
  /\ SF_vars(SendResolved)
  /\ SF_vars(SendRelations)

InitCoal == InitIn(Coalescing) /\ NoSeries
SpecCoal == InitCoal /\ [][Next]_vars

InitSync == InitIn(Contended) /\ NoSeries
SpecSync == InitSync /\ [][NextSync]_vars

InitCalls == InitIn(Called) /\ NoSeries
SpecCalls == InitCalls /\ [][NextCalls]_vars

\* Scheduling: a goroutine that can run does (LoopStart, RestSetCharm, and a caller
\* whose select has the dying case ready); a select picks among its ready cases at
\* random, so a case that is ready again and again is taken in the end (LoopDying).
FairCalls ==
  /\ SpecCalls
  /\ WF_vars(LoopStart)
  /\ WF_vars(RestSetCharm)
  /\ SF_vars(LoopDying)
  /\ \A c \in Callers : WF_vars(CallerDying(c))

\* The worker of a machine with any of the units, each preparing or not yet
\* started and each with or without a unit agent service, running or stopped; the
\* filter of a unit on no charm stays as newFilter left it.
Uncharmed == [charms |-> {}, svcCharms |-> {CharmURLs[1]}, forces |-> {FALSE},
              modes |-> {"none"}, relIds |-> OneRel, notifyLen |-> 1, callers |-> {}]

InitSeries ==
  /\ InitIn(Uncharmed)
  /\ \E us \in [UnitIds -> {NotStarted, PrepareStarted}],
        sv \in [UnitIds -> {"absent", "running", "stopped"}] : SeriesInit(us, sv)
SpecSeries == InitSeries /\ [][NextSeries]_vars

\* ------------------------------------------------------------- properties
\* C1: every value the loop sends on the resolved output is RetryHooks or NoHooks:
\* whenever the resolved output is armed, so that the loop's select can send
\* f.resolved on it, the cached resolved mode is not None.
C1_ResolvedNeverNone == outResolved => resolved # "none"

\* C2: right after every evaluation of upgradeChanged that the loop survives (a
\* service change, the completion of SetCharm, a WantUpgradeEvent) the upgrade
\* output is armed exactly if the unit is alive, upgradeFrom.url is set, the
\* available url differs from it, and the available charm is forced or the
\* baseline does not demand force; an armed output carries the available url.
C2_UpgradeDecisionRule ==
  [][(pc' = "select" /\ (RestSetCharm \/ WantUpgradeEvent \/ ServiceChange)) =>
       /\ outUpgrade' <=> /\ life' = "alive"
                          /\ upgradeFrom'.url # Nil
                          /\ upgradeAvailable'.url # upgradeFrom'.url
                          /\ (upgradeAvailable'.force \/ ~upgradeFrom'.force)
       /\ outUpgrade' => upgrade' = upgradeAvailable'.url]_vars

\* After WantUpgradeEvent(true), a forced charm change of the service is pending.
C2_ForcedUpgradeArmed ==
  /\ pc = "select" /\ outUpgrade /\ wantedUpgrade
  /\ upgradeFrom.force /\ upgradeAvailable.force
  /\ upgrade = upgradeAvailable.url

\* After WantUpgradeEvent(true), an unforced charm change of the service is not.
C2_UnforcedNotArmed ==
  /\ pc = "select" /\ ~outUpgrade /\ wantedUpgrade /\ life = "alive"
  /\ upgradeFrom.force /\ ~upgradeAvailable.force
  /\ upgradeFrom.url # Nil /\ upgradeAvailable.url # upgradeFrom.url

\* C3, as stated: from the moment SetCharm(u) has returned nil, that is from the
\* moment the loop has sent on didSetCharm, upgradeFrom.url is u.
C3_FromReturn == pc = "restSetCharm" => upgradeFrom.url = curl

\* C3: the url SetCharm(u) was given is the unit's charm url in state when the
\* acknowledgement is sent, and nothing but a later SetCharm changes it; whenever
\* the loop waits at its select, where it delivers events and takes requests,
\* upgradeFrom.url is that url and an armed upgrade event carries another url.
C3_SetCharmBaseline ==
  /\ [][SetCharmAck => unitCharmURL = curl]_vars
  /\ [][unitCharmURL' # unitCharmURL => SetCharm]_vars
  /\ [](pc = "select" => /\ upgradeFrom.url = unitCharmURL
                         /\ outUpgrade => upgrade # unitCharmURL)

\* SetCharm(cs:foo-2) has completed while the service announces cs:foo-1.
C3_SetCharmDone ==
  /\ pc = "select" /\ unitCharmURL = CharmURLs[2] /\ upgradeFrom.url = CharmURLs[2]
  /\ outUpgrade /\ upgrade = CharmURLs[1] /\ handle["config"] = "live"

\* C4, as stated: until the loop has received a WantUpgradeEvent the upgrade
\* output is disarmed.
C4_GatedOnWant == ~wantedUpgrade => ~outUpgrade

\* C4: the loop's startup leaves the upgrade output disarmed, whatever the unit's
\* and the service's charms are, and only a service change, the completion of a
\* SetCharm or a WantUpgradeEvent arms it.
C4_ArmedByEvaluation ==
  /\ [][pc = "start" => ~outUpgrade']_vars
  /\ [][~outUpgrade /\ outUpgrade' => ServiceChange \/ RestSetCharm \/ WantUpgradeEvent]_vars

\* The loop has started with the unit on a charm other than the service's and no
\* WantUpgradeEvent has been received.
C4_StartedBehind ==
  /\ pc = "select" /\ ~wantedUpgrade /\ ~outUpgrade /\ life = "alive"
  /\ upgradeFrom.url # Nil /\ upgradeAvailable.url # upgradeFrom.url

\* C5: every list the loop sends on RelationsEvents is strictly ascending, and so
\* free of duplicates: whenever the relations output is armed, f.relations is.
C5_RelationsAscending ==
  outRelations => \A i \in 1..(Len(relations) - 1) : relations[i] < relations[i + 1]

\* Several ids are pending, some of them received more than once or out of order.
C5_SeveralPending == pc = "select" /\ outRelations /\ Len(relations) = MaxRelId

\* C6: while the loop is at its select, the relations output is armed exactly if
\* a relations change has brought an id since the last delivery, and f.relations
\* holds each id received since then once, and no other; a delivery leaves
\* f.relations empty and the output disarmed, and only a relations change arms it
\* again.
C6_RelationsAccumulate ==
  /\ [](pc = "select" => /\ outRelations <=> relSeen # {}
                         /\ Elems(relations) = relSeen
                         /\ Len(relations) = Cardinality(relSeen))
  /\ [][outRelations /\ ~outRelations' /\ pc' = "select" => relations' = << >>]_vars
  /\ [][~outRelations /\ outRelations' => RelationsChange]_vars

\* The changes [3, 1] and [2, 1], or others with the same ids, are pending.
C6_ThreePending ==
  pc = "select" /\ outRelations /\ relSeen = {1, 2, 3} /\ relations = <<1, 2, 3>>

\* C7, as stated: when ClearResolved returns nil, that is when the loop sends on
\* didClearResolved, the cached mode is None and the resolved output is disarmed.
C7_ClearedAtReturn == pc = "ackClearResolved" => resolved = "none" /\ ~outResolved

\* C7: the clearResolved case leaves the resolved output armed only if its own
\* refresh has read a mode that is not None and is not the cached one; and from a
\* state where the cached mode is None and the output disarmed, no step arms the
\* output or changes the mode (a WantResolvedEvent does not arm, nothing is
\* delivered) other than a refresh, of a unit change or of a ClearResolved, that
\* reads a mode which is not None.
C7_NoStaleResolved ==
  /\ [][(pc = "select" /\ pc' = "ackClearResolved") =>
          (outResolved' => resolved' # "none" /\ resolved' # resolved)]_vars
  /\ [][(pc # "start" /\ resolved = "none" /\ ~outResolved) =>
          \/ resolved' = "none" /\ ~outResolved'
          \/ resolved' # "none" /\ (UnitChange \/ ClearResolved)]_vars

\* The loop is about to acknowledge a ClearResolved that has left the mode None.
C7_Cleared ==
  pc = "ackClearResolved" /\ resolved = "none" /\ ~outResolved /\ life = "alive"

\* C8: once the loop has returned, no watcher is started and not stopped, and the
\* loop holds no watcher that is live.
C8_WatchersStopped ==
  pc = "done" => \A k \in Kinds : running[k] = 0 /\ handle[k] # "live"

\* The loop has returned after a SetCharm, holding four watchers.
C8_StoppedAfterSetCharm ==
  pc = "done" /\ unitCharmURL # Nil /\ \A k \in Kinds : handle[k] = "stopped"

\* C9: once the tomb is dying, a caller that is in a request method, in its send
\* or in its wait for the acknowledgement, leaves it; SetCharm and ClearResolved
\* return nil exactly on the step in which the loop sends the acknowledgement, and
\* return tomb.ErrDying only when the tomb is dying.
C9_NoCallBlocks ==
  /\ \A c \in Callers :
       (Dying /\ call[c].phase \in {"send", "wait"}) ~> (call[c].phase \notin {"send", "wait"})
  /\ [][\A c \in Callers :
          (/\ call[c].op \in SyncOps
           /\ call[c].phase \in {"send", "wait"}
           /\ call'[c].phase \in {"ok", "dying"}) =>
            /\ call'[c].phase = "ok" <=> /\ pc \in {"ackSetCharm", "ackClearResolved"}
                                         /\ call[c].phase = "wait"
                                         /\ pc' \notin {pc, "done"}
            /\ call'[c].phase = "dying" => Dying]_vars

\* SetCharm or ClearResolved has returned tomb.ErrDying to a caller whose request
\* the loop had received.
C9_GaveUpWaiting ==
  call["c1"].phase = "dying" /\ pc \in {"ackSetCharm", "ackClearResolved"}

\* C10: once the tomb is dying the loop returns, so that Dead() is readable,
\* wherever it is and whatever outputs are armed; when the loop returns
\* tomb.ErrDying, Stop and Wait return nil unless the Stop of a watcher failed.
C10_ShutdownLive ==
  /\ Dying ~> Dead
  /\ [](Dead /\ loopErr = ErrDying =>
          tombReason \in {NoErr} \cup {WatcherErr(k) : k \in Kinds})

\* Stop was called while the loop was sending an acknowledgement nobody waits for
\* any more, or had events armed; the loop has returned and Stop returns nil.
C10_StoppedClean ==
  pc = "done" /\ loopErr = ErrDying /\ tombReason = NoErr /\ call["c1"].phase = "dying"

C12_UnitDyingClosedOnce ==
  /\ [](/\ unitDyingCloses \in {0, 1}
        /\ life = "alive" => unitDyingCloses = 0
        /\ life = "dying" => unitDyingCloses = 1)
  /\ [][unitDyingCloses' # unitDyingCloses =>
          /\ life = "alive" /\ life' = "dying"
          /\ unitDyingCloses' = unitDyingCloses + 1]_vars

\* The unit is dying, and the loop goes on.
C12_UnitDyingClosed == pc = "select" /\ life = "dying" /\ unitDyingCloses = 1

\* C13: while the cached life is not Alive the upgrade output is disarmed, whatever
\* service change, SetCharm or WantUpgradeEvent the loop has handled since.
C13_NoUpgradeWhenDying == life # "alive" => ~outUpgrade

\* The unit is dying on a charm other than the service's, no upgrade is pending,
\* and config, resolved and relations events are.
C13_OthersArmedWhenDying ==
  /\ pc = "select" /\ life = "dying" /\ ~outUpgrade
  /\ upgradeFrom.url # Nil /\ upgradeAvailable.url # upgradeFrom.url
  /\ outConfig /\ outResolved /\ outRelations

\* C14, as stated: when a backend step of the setCharm case has failed, the
\* SetCharm call has not returned nil.
C14_NeverSuccess ==
  exitCause \in {"configw.Stop", "unit.SetCharmURL", "WatchConfigSettings",
                 "relationsw.Stop"} =>
    ~(call["c1"].op = "SetCharm" /\ call["c1"].phase = "ok")

\* C14: when a backend step of the setCharm case fails the loop returns the error
\* of that step; when the step is the Stop of the old config watcher or
\* SetCharmURL the call does not return nil, and the other two steps, the start
\* of the fresh config watcher and the Stop of the old relations watcher, fail
\* only after the acknowledgement.
C14_SetCharmFailure ==
  /\ [](exitCause \in {"configw.Stop", "unit.SetCharmURL"} =>
          /\ pc = "done"
          /\ loopErr = (IF exitCause = "configw.Stop" THEN WatcherErr("config")
                                                      ELSE ErrBackend)
          /\ ~(call["c1"].op = "SetCharm" /\ call["c1"].phase = "ok"))
  /\ [](exitCause \in {"WatchConfigSettings", "relationsw.Stop"} =>
          /\ pc = "done"
          /\ loopErr = (IF exitCause = "relationsw.Stop" THEN WatcherErr("relations")
                                                         ELSE ErrBackend))
  /\ [][(pc # "start" /\ exitCause' \in {"WatchConfigSettings", "relationsw.Stop"}) =>
          (pc = "restSetCharm" \/ exitCause' = exitCause)]_vars

\* SetCharmURL has failed and SetCharm has returned tomb.ErrDying.
C14_SetCharmDying ==
  /\ exitCause = "unit.SetCharmURL"
  /\ call["c1"].op = "SetCharm" /\ call["c1"].phase = "dying"

\* C15: the loop never runs two config watchers or two relations watchers; while
\* it sends the acknowledgement of a SetCharm, and until it has started the fresh
\* config watcher, no config watcher runs and the unit's charm url in state is
\* the one SetCharm was given; the url in state changes only while no config
\* watcher runs.
C15_SetCharmOrder ==
  /\ [](running["config"] <= 1 /\ running["relations"] <= 1)
  /\ [](pc \in {"ackSetCharm", "restSetCharm"} =>
          running["config"] = 0 /\ unitCharmURL = curl)
  /\ [][unitCharmURL' # unitCharmURL =>
          running'["config"] = 0 /\ pc' = "ackSetCharm"]_vars

\* A SetCharm(cs:foo-2) on a unit that was on cs:foo-1 is being acknowledged.
C15_Acknowledging ==
  /\ pc = "ackSetCharm" /\ curl = CharmURLs[2] /\ upgradeFrom.url = CharmURLs[1]
  /\ handle["config"] = "stopped"

\* C16: once the loop has taken a SetCharm request, and until it handles another
\* input, no config event is armed: what was pending has been wiped.
C16_WipedBySetCharm == pc \in {"ackSetCharm", "restSetCharm"} => ~outConfig

\* C17: a caller's DiscardConfigEvent ends either on the dying signal, changing
\* nothing, or by the loop's receipt, which happens only after a first config
\* change and leaves the config output disarmed and everything else as it was;
\* and only a config change arms the config output.
C17_DiscardConfig ==
  /\ [][\A c \in Callers :
          (Sending(c, "DiscardConfigEvent") /\ call'[c] # call[c]) =>
            /\ UNCHANGED <<pc, tombVars, lifeVars, resolved, upgradeFrom,
                           upgradeAvailable, upgrade, relations, outUpgrade,
                           outResolved, outRelations, discardConfig, curl, relSeen,
                           wantedUpgrade, observed, watcherVars, backendVars>>
            /\ \/ Dying /\ outConfig' = outConfig
               \/ discardConfig /\ pc = "select" /\ ~outConfig']_vars
  /\ [][~outConfig /\ outConfig' => ConfigChange]_vars

\* A config event is armed and a caller is in DiscardConfigEvent.
C17_Discarding ==
  pc = "select" /\ outConfig /\ discardConfig /\ Sending("c1", "DiscardConfigEvent")

\* A caller is in DiscardConfigEvent while the loop has seen no config change.
C17_DiscardTooEarly ==
  pc = "select" /\ ~discardConfig /\ ~Dying /\ Sending("c1", "DiscardConfigEvent")

\* C18: a caller's WantResolvedEvent ends either on the dying signal, changing
\* nothing, or by the loop's receipt, which arms the resolved output if the cached
\* mode is not None, leaves it as it was if the mode is None, and changes nothing
\* else.
C18_WantResolved ==
  [][\A c \in Callers :
       (Sending(c, "WantResolvedEvent") /\ call'[c] # call[c]) =>
         /\ UNCHANGED <<pc, tombVars, lifeVars, resolved, upgradeFrom, upgradeAvailable,
                        upgrade, relations, outUpgrade, outConfig, outRelations,
                        discardConfig, curl, relSeen, wantedUpgrade, observed, watcherVars,
                        backendVars>>
         /\ \/ Dying /\ outResolved' = outResolved
            \/ pc = "select" /\ outResolved' = (outResolved \/ resolved # "none")]_vars

\* The mode is RetryHooks, no event is armed, and a caller is in WantResolvedEvent.
C18_Rearming ==
  /\ pc = "select" /\ resolved = "retry-hooks" /\ ~outResolved
  /\ Sending("c1", "WantResolvedEvent")

\* C19: each category has one output, armed or not; while the loop runs, the mode
\* a read of ResolvedEvents yields is the mode the most recent unit Refresh read,
\* the cached available charm is the one the most recent service Refresh read, and
\* the URL a read of UpgradeEvents yields is that charm's URL.
C19_LatestState ==
  pc \in {"select", "ackSetCharm", "restSetCharm", "ackClearResolved"} =>
    /\ {outUpgrade, outResolved, outConfig, outRelations} \subseteq BOOLEAN
    /\ resolved = observed.resolved
    /\ upgradeAvailable.url = observed.url
    /\ outUpgrade => upgrade = observed.url

\* An upgrade event for the third charm of the service and a resolved event are
\* pending, the mode last read being NoHooks.
C19_LatestPending ==
  /\ pc = "select" /\ outUpgrade /\ outResolved
  /\ upgrade = CharmURLs[3] /\ observed.url = CharmURLs[3]
  /\ resolved = "no-hooks" /\ observed.resolved = "no-hooks"

\* C20: from every state of the loop at its select, a service notification
\* followed at once by a second one that reads the same service state leaves the
\* armed flag, the pending url and the available charm as the first left them; and
\* a service notification that reads what the cache already holds, in a state
\* whose upgrade output is as an evaluation leaves it, changes neither the flag
\* nor the url.
C20_ServiceIdempotent ==
  /\ [](pc = "select" =>
          \A so \in ServiceObs :
            LET s1 == serviceChanged(so, FALSE, life, upgradeFrom, upgrade, outUpgrade)
                s2 == serviceChanged(so, FALSE, life, upgradeFrom, s1.upgrade,
                                     s1.outUpgrade)
            IN  s1.err = NoErr => s2 = s1)
  /\ [][(/\ pc = "select" /\ pc' = "select"
         /\ upgradeAvailable' = upgradeAvailable /\ svcLife' = svcLife
         /\ (outUpgrade' # outUpgrade \/ upgrade' # upgrade)
         /\ outUpgrade <=> /\ life = "alive"
                           /\ upgradeFrom.url # Nil
                           /\ upgradeAvailable.url # upgradeFrom.url
                           /\ (upgradeAvailable.force \/ ~upgradeFrom.force)
         /\ outUpgrade => upgrade = upgradeAvailable.url)
          => ~ServiceChange]_vars

\* An upgrade event that no WantUpgradeEvent asked for is pending for the charm
\* the last service Refresh read, which a further Refresh would read again.
C20_UpgradePending ==
  /\ pc = "select" /\ outUpgrade /\ ~wantedUpgrade /\ svcLife = "alive"
  /\ upgrade = observed.url /\ upgradeAvailable.url = observed.url
  /\ [life |-> "alive", url |-> observed.url, force |-> upgradeAvailable.force]
       \in ServiceObs

C22_ServiceDead ==
  /\ exitCause = "service.Dead" /\ loopErr = ErrServiceDead
  /\ handle["service"] = "stopped"

\* C23: a service notification that reads the service Dying either leaves the
\* unit destroyed in state and the loop at its select, or makes the loop return:
\* with the error of f.unit.Destroy(), or because the watcher was closed or the
\* Refresh failed; in no case does it change the cached life of the unit or
\* close UnitDying.
C23_DestroyOnDying ==
  [][(pc = "select" /\ svcLife' = "dying" /\ ServiceChange) =>
       /\ UNCHANGED lifeVars
       /\ \/ pc' = "select" /\ unitDestroyed'
          \/ /\ pc' = "done"
             /\ \/ exitCause' = "unit.Destroy" /\ loopErr' = ErrBackend
                \/ exitCause' \in {"servicew.Changes", "service.Refresh",
                                    "service.NotFound"}]_vars

\* The loop has returned with the error of a Destroy that was called after an
\* earlier Destroy had succeeded, and still holds the unit for alive.
C23_DestroyedAgain ==
  /\ exitCause = "unit.Destroy" /\ loopErr = ErrBackend /\ unitDestroyed
  /\ life = "alive" /\ handle["service"] = "stopped"

\* C24: a service notification that reads the service Dying and that the loop
\* survives changes neither f.upgradeAvailable nor the armed state of the
\* upgrade output.
C24_DyingLeavesUpgrade ==
  [][(pc = "select" /\ pc' = "select" /\ svcLife' = "dying" /\ ServiceChange) =>
       upgradeAvailable' = upgradeAvailable /\ outUpgrade' = outUpgrade]_vars

\* C24: a service notification that reads the service Dying and that the loop
\* survives stores the charm it read in f.upgradeAvailable and evaluates the
\* upgrade output as every other service notification does.
C24_DyingReevaluates ==
  [][(pc = "select" /\ pc' = "select" /\ svcLife' = "dying" /\ ServiceChange) =>
       /\ upgradeAvailable'.url = observed'.url
       /\ outUpgrade' <=> /\ life' = "alive"
                          /\ upgradeFrom'.url # Nil
                          /\ upgradeAvailable'.url # upgradeFrom'.url
                          /\ (upgradeAvailable'.force \/ ~upgradeFrom'.force)
       /\ outUpgrade' => upgrade' = upgradeAvailable'.url]_vars

\* The service is dying, the unit destroyed in state but still held for alive,
\* and an upgrade to the third charm of the service is pending.
C24_ArmedWhileServiceDying ==
  /\ pc = "select" /\ svcLife = "dying" /\ unitDestroyed /\ life = "alive"
  /\ outUpgrade /\ upgrade = CharmURLs[3] /\ upgradeAvailable.url = CharmURLs[3]

\* C25: once the loop is at its select, the cached life of the unit changes only
\* in the handling of a unit-watcher notification.
C25_OnlyUnitWatcher ==
  [][(pc # "start" /\ life' # life) => UnitChange]_vars

\* C25: the cached life and UnitDying change only where unitChanged runs: at the
\* loop's start, on a unit-watcher notification, and in the clearResolved case;
\* a change to Dying closes UnitDying once and leaves the upgrade output
\* disarmed, a change to Dead makes the loop return the terminate-agent error.
C25_LifeByUnitChanged ==
  [][(life' # life \/ unitDyingCloses' # unitDyingCloses) =>
       /\ \/ pc = "start" /\ LoopStart
          \/ pc = "select" /\ (UnitChange \/ ClearResolved)
       /\ life' # life
       /\ life' = "dying" => unitDyingCloses' = unitDyingCloses + 1 /\ ~outUpgrade'
       /\ life' = "dead" =>
            /\ unitDyingCloses' = unitDyingCloses
            /\ pc' = "done" /\ loopErr' \in {ErrTerminateAgent}]_vars

\* The clearResolved case is about to acknowledge with the unit cached as dying
\* and UnitDying closed.
C25_DyingAtClearResolved ==
  pc = "ackClearResolved" /\ life = "dying" /\ unitDyingCloses = 1 /\ ~outUpgrade

C27_FatalErrorWins ==
  (pc = "done" /\ loopErr \notin {NoErr, ErrDying}) => tombReason = loopErr

\* C27: once the loop has returned, every watcher it held is stopped, and the
\* tomb's reason is the error of a watcher's Stop if one failed, and otherwise
\* the error the loop returned (nil for tomb.ErrDying after Stop); the stops run
\* last started first, so after the close of a watcher's Changes channel, whose
\* Stop returns the watcher's error, the reason is the error of that watcher or
\* of one that is stopped before it.
C27_TeardownPrecedence ==
  pc = "done" =>
    /\ \A k \in Kinds : handle[k] # "live" /\ running[k] = 0
    /\ tombReason \in (IF loopErr = ErrDying THEN {NoErr} ELSE {loopErr})
                         \cup {WatcherErr(j) : j \in Kinds}
    /\ \A k \in Kinds :
         exitCause = k \o "w.Changes" =>
           \E j \in Kinds : LifoRank(j) <= LifoRank(k) /\ tombReason = WatcherErr(j)

\* The loop returned "service unexpectedly removed" and Wait returns the error
\* of the relations watcher's Stop.
C27_StopErrorWins ==
  /\ pc = "done" /\ loopErr = ErrServiceRemoved
  /\ tombReason = WatcherErr("relations")

\* C28: while the loop runs, the relations output is armed exactly if f.relations
\* is not empty, so that no empty list is sent; and the setCharm case, which
\* restarts the relations watcher, changes neither f.relations nor the output.
C28_ArmedIffPending ==
  /\ [](pc \in {"select", "ackSetCharm", "restSetCharm", "ackClearResolved"} =>
          (outRelations <=> relations # << >>))
  /\ [][(pc' \in {"ackSetCharm", "restSetCharm"} \/ (pc = "restSetCharm" /\ pc' = "select"))
          => (relations' = relations /\ outRelations' = outRelations)]_vars

\* Two relation ids are pending while the loop is inside a SetCharm, its
\* relations watcher not yet restarted.
C28_PendingAcrossSetCharm ==
  pc = "restSetCharm" /\ outRelations /\ relations = <<1, 2>> /\ relSeen = {1, 2}

\* C29: with two callers in SetCharm and ClearResolved, at most one caller waits
\* for the acknowledgement of each kind; a caller waits only while the loop is at
\* the acknowledgement of its request, the backend effect applied, or has
\* returned; the loop at an acknowledgement has its caller waiting unless the
\* tomb is dying, and the tomb is dying once the loop has returned, so neither
\* side is stuck; and a call returns nil only from its wait, in the step in which
\* the loop sends the acknowledgement of its request, no other call changing.
C29_NoStolenAck ==
  /\ [](\A op \in SyncOps : Cardinality({c \in Callers : Waiting(c, op)}) <= 1)
  /\ [](\A c \in Callers :
          /\ Waiting(c, "SetCharm") =>
               \/ pc = "done"
               \/ pc = "ackSetCharm" /\ curl = call[c].arg /\ unitCharmURL = call[c].arg
          /\ Waiting(c, "ClearResolved") => pc \in {"ackClearResolved", "done"})
  /\ [](pc = "ackSetCharm" => Dying \/ \E c \in Callers : Waiting(c, "SetCharm"))
  /\ [](pc = "ackClearResolved" =>
          Dying \/ \E c \in Callers : Waiting(c, "ClearResolved"))
  /\ [](pc = "done" => Dying)
  /\ [][\A c \in Callers :
          (call'[c].phase = "ok" /\ call[c].phase # "ok") =>
            /\ call[c].phase = "wait"
            /\ \/ /\ call[c].op = "SetCharm"
                  /\ pc = "ackSetCharm" /\ pc' = "restSetCharm"
                  /\ unitCharmURL = call[c].arg
               \/ /\ call[c].op = "ClearResolved"
                  /\ pc = "ackClearResolved" /\ pc' = "select"
            /\ \A d \in Callers \ {c} : call'[d] = call[d]]_vars

\* One caller waits for the acknowledgement of its SetCharm while the other is in
\* the send of a SetCharm of another charm.
C29_Contending ==
  /\ pc = "ackSetCharm" /\ Waiting("c1", "SetCharm") /\ Sending("c2", "SetCharm")
  /\ call["c1"].arg = CharmURLs[2] /\ call["c2"].arg = CharmURLs[1]

\* C30: in every state of the loop at its select, unitChanged after a Refresh
\* that reads the cached life and the cached resolved mode returns no error and
\* leaves the life, UnitDying, the mode and the upgrade and resolved outputs as
\* they are; and a unit-watcher notification that reads them leaves every field
\* of the filter, the watchers and the tomb as they are.
C30_SameUnitNoChange ==
  /\ [](pc = "select" =>
          \A uo \in UnitObs :
            (uo.life = life /\ uo.resolved = resolved) =>
              unitChanged(uo, life, resolved, outUpgrade, outResolved, unitDyingCloses)
                = [err |-> NoErr, life |-> life, closes |-> unitDyingCloses,
                   outUpgrade |-> outUpgrade, resolved |-> resolved,
                   outResolved |-> outResolved])
  /\ [][(/\ pc = "select" /\ pc' = "select"
         /\ life' = life /\ observed'.resolved = resolved
         /\ UnitChange)
          => UNCHANGED <<tombVars, lifeVars, cacheVars, watcherVars, backendVars>>]_vars

\* The unit is dying and resolved with RetryHooks, the resolved event has been
\* read, and a Refresh of the unit would read the same again.
C30_ConsumedAndSame ==
  /\ pc = "select" /\ life = "dying" /\ unitDyingCloses = 1
  /\ resolved = "retry-hooks" /\ observed.resolved = "retry-hooks" /\ ~outResolved
  /\ [life |-> life, resolved |-> resolved] \in UnitObs

\* C31: on a change notification with the machine's status PrepareStarted, the
\* worker sets the status to PrepareMachine only if compareUnitAgentServices
\* confirms the prepared units, and only once no unit agent service is running any
\* more, those that were running having been stopped; it then keeps running.  If
\* the units are not all confirmed the handler changes nothing and returns no
\* error, whatever it returns when a call of the comparison fails.  If
\* DiscoverService, Running or Stop fails the status stays PrepareStarted and the
\* loop returns that error.
C31_PrepareStartedOutcomes ==
  machineStatus = PrepareStarted =>
    LET confirmed == compareUnitAgentServices(UnitsPrepared).allConfirmed
    IN  /\ \A o \in handlePrepareStarted :
             /\ o.status \in {PrepareStarted, PrepareMachine}
             /\ o.status = PrepareMachine =>
                  /\ confirmed
                  /\ o.err = NoErr
                  /\ \A u \in UnitIds :
                       /\ o.services[u] # "running"
                       /\ agentService[u] = "running" => o.services[u] = "stopped"
                       /\ agentService[u] # "running" => o.services[u] = agentService[u]
             /\ ~confirmed => o \in {Same(NoErr), Same(SeriesErr("UnitsPrepared")),
                                      Same(SeriesErr("ListServices"))}
             /\ o.err \in ServiceErrs => o.status = PrepareStarted /\ confirmed
        /\ ~confirmed => Same(NoErr) \in handlePrepareStarted

C31_PrepareStartedStep ==
  machineStatus = PrepareStarted =>
    /\ machineStatus' # machineStatus =>
         /\ machineStatus' = PrepareMachine
         /\ compareUnitAgentServices(UnitsPrepared).allConfirmed
         /\ \A u \in UnitIds : agentService'[u] # "running"
         /\ UNCHANGED <<wpc, werr, unitStatus>>
         /\ wpc = "select"
    /\ ~compareUnitAgentServices(UnitsPrepared).allConfirmed =>
         /\ UNCHANGED <<machineStatus, agentService>>
         /\ werr = NoErr => werr' \notin ServiceErrs
    /\ (werr = NoErr /\ werr' \in ServiceErrs) =>
         /\ machineStatus' = PrepareStarted
         /\ wpc' = "done"

C31_PrepareStarted ==
  /\ []C31_PrepareStartedOutcomes
  /\ [][C31_PrepareStartedStep]_vars

\* The worker has moved a machine on to PrepareMachine: the agent of one of its
\* prepared units is stopped, and no unit agent runs.
C31_StoppedAndMoved ==
  /\ machineStatus = PrepareMachine
  /\ wpc = "select"
  /\ \E u \in UnitIds : unitStatus[u] = PrepareCompleted /\ agentService[u] = "stopped"
  /\ \A u \in UnitIds : agentService[u] # "running"

SeriesTypeOK ==
  /\ wpc \in {"start", "select", "done"}
  /\ wdying \in BOOLEAN
  /\ machineStatus \in SeriesStatuses
  /\ unitStatus \in [UnitIds -> SeriesStatuses]
  /\ agentService \in [UnitIds -> {"absent", "running", "stopped"}]
  /\ (wpc = "done") = (werr # NoErr)

TypeOK ==
  /\ pc \in {"start", "select", "ackSetCharm", "restSetCharm", "ackClearResolved", "done"}
  /\ life \in Lives
  /\ resolved \in Modes
  /\ observed \in [resolved : Modes, url : Charms \cup {CharmURLs[3], Nil}]
  /\ upgrade \in Charms \cup {CharmURLs[3], Nil}
  /\ \A k \in Kinds : handle[k] \in {Nil, "live", "stopped"} /\ running[k] \in 0..1

====
